---- MODULE Spec2Model ----
(***************************************************************************)
(* Model of scripts/ingest.py: main() folds the cases of the corpus into   *)
(* entity_map, relationship_docs and chunk_docs, then submits everything   *)
(* in one helpers.bulk call and reports the outcome.                       *)
(*                                                                         *)
(* Python str values are TLA+ strings (\o is +, SubSeq is slicing), a      *)
(* Python dict is the sequence of its items in insertion order, a Python   *)
(* list is a sequence.                                                     *)
(***************************************************************************)
EXTENDS Integers, Sequences, FiniteSets, TLC

\* ------------------------------------------------------------------ bounds
\* entity mentions, relationships and chunks of the whole corpus, together
MaxItems == 3

\* items of one helpers.bulk call the store may reject
MaxFailures == 1

\* ------------------------------------------------------- program constants
DIMENSION == 1536

EmbedInputLimit == 8000

SnippetLimit == 500

DefaultPage == 1

EMBEDDING_MODEL == "text-embedding-3-small"

LAW_INDICES == [chunks |-> "law_chunks", entities |-> "law_entities",
                relationships |-> "law_relationships"]

\* ------------------------------------------------------------ input pools
\* data["cases"] of line 158. Names and types are chosen so that one name
\* is a substring of the other and "|" occurs in both a name and a type.
Names == {"a", "a|b"}

Types == {"PERSON", "b|ENTITY"}

RelationshipTypes == {"EMPLOYS"}

FileNames == {"case1.pdf"}

\* stands for a chunk that carries no "page_number" key (pages count from 1)
NoPage == 0

EntityMentions ==
    {[entity |-> "a", type |-> "PERSON"],
     [entity |-> "a", type |-> "b|ENTITY"],
     [entity |-> "a|b", type |-> "PERSON"]}

RelationshipMentions ==
    {r \in [from : Names, to : Names, relationship : RelationshipTypes] :
        r.from = "a|b" \/ r.to = "a|b"}

Chunks ==
    {[element_id |-> "c1", text |-> "a", page_number |-> NoPage],
     [element_id |-> "c2", text |-> "a|b", page_number |-> 2]}

\* the cases holding n items in all
CasesOfSize(n) ==
    UNION {UNION {[filename : FileNames,
                   entities : [1..e -> EntityMentions],
                   relationships : [1..r -> RelationshipMentions],
                   chunks : [1..(n - e - r) -> Chunks]] :
                  r \in 0..(n - e)} :
           e \in 0..n}

RECURSIVE CorporaOfSize(_)
\* the corpora of non-empty cases holding n items in all
CorporaOfSize(n) ==
    IF n = 0 THEN {<<>>}
    ELSE UNION {{<<c>> \o rest : c \in CasesOfSize(k), rest \in CorporaOfSize(n - k)} :
                k \in 1..n}

CorporaUpTo(n) == UNION {CorporaOfSize(k) : k \in 0..n}

Corpora == CorporaUpTo(MaxItems)

\* ------------------------------------------------------------------ state
VARIABLES cases, openai_client, pc, pos, entity_map, entity_counter,
          relationship_docs, chunk_docs, embed_requests, bulk_calls,
          success, errors, stdout, stderr, exit_status, resolved,
          previous_runs

vars == <<cases, openai_client, pc, pos, entity_map, entity_counter,
          relationship_docs, chunk_docs, embed_requests, bulk_calls,
          success, errors, stdout, stderr, exit_status, resolved,
          previous_runs>>

\* --------------------------------------------------------- pure functions
Min(a, b) == IF a < b THEN a ELSE b

\* s[:n]
Prefix(s, n) == SubSeq(s, 1, Min(Len(s), n))

\* needle in haystack, for Python str
Contains(haystack, needle) ==
    \E i \in 1..(Len(haystack) - Len(needle) + 1) :
        SubSeq(haystack, i, i + Len(needle) - 1) = needle

Digit(d) ==
    CASE d = 0 -> "0" [] d = 1 -> "1" [] d = 2 -> "2" [] d = 3 -> "3"
      [] d = 4 -> "4" [] d = 5 -> "5" [] d = 6 -> "6" [] d = 7 -> "7"
      [] d = 8 -> "8" [] d = 9 -> "9"

RECURSIVE Decimal(_)
Decimal(n) == IF n < 10 THEN Digit(n) ELSE Decimal(n \div 10) \o Digit(n % 10)

\* f"{n:03d}"
Format03d(n) ==
    IF n < 10 THEN "00" \o Decimal(n)
    ELSE IF n < 100 THEN "0" \o Decimal(n)
    ELSE Decimal(n)

EntityId(n) == "ent_" \o Format03d(n)

RelId(i) == "rel_" \o Format03d(i)

build_entity_key(name, entity_type) == name \o "|" \o entity_type

\* ------------------------------------------------------------ dict helpers
KeyIn(key, m) == \E i \in 1..Len(m) : m[i].key = key

IndexOfKey(key, m) == CHOOSE i \in 1..Len(m) : m[i].key = key

\* m[key] = value: a present key keeps its position and gets the new value
DictSet(m, key, value) ==
    IF KeyIn(key, m)
    THEN [m EXCEPT ![IndexOfKey(key, m)] = [key |-> key, value |-> value]]
    ELSE Append(m, [key |-> key, value |-> value])

DictGet(m, key) == m[IndexOfKey(key, m)].value

name_exists(name, m) == \E i \in 1..Len(m) : m[i].value.entity_name = name

\* the first value of the dict with that entity_name (0 when there is none)
FirstByName(name, m) ==
    IF name_exists(name, m)
    THEN CHOOSE i \in 1..Len(m) :
            /\ m[i].value.entity_name = name
            /\ \A j \in 1..(i - 1) : m[j].value.entity_name # name
    ELSE 0

\* ------------------------------------------------------- per-case prelude
FirstChunkText(c) == IF Len(c.chunks) > 0 THEN c.chunks[1].text ELSE ""

Snippet(c) == Prefix(FirstChunkText(c), SnippetLimit)

PageOf(ch) == IF ch.page_number = NoPage THEN DefaultPage ELSE ch.page_number

CasePage(c) == IF Len(c.chunks) > 0 THEN PageOf(c.chunks[1]) ELSE DefaultPage

ElemId0(c) == IF Len(c.chunks) > 0 THEN c.chunks[1].element_id ELSE ""

NewEntity(n, name, type, c) ==
    [entity_id |-> EntityId(n), entity_name |-> name, entity_type |-> type,
     source_element_ids |-> <<>>, source_text_snippet |-> Snippet(c),
     filename |-> c.filename, page_number |-> CasePage(c)]

\* ------------------------------------------------- the order of the loops
\* the relationship loop has two steps per relationship, one per participant
CaseSteps(cs, ci) ==
    [i \in 1..Len(cs[ci].entities) |->
        [case |-> ci, loop |-> "entities", i |-> i, part |-> 0]]
    \o [i \in 1..(2 * Len(cs[ci].relationships)) |->
            [case |-> ci, loop |-> "relationships", i |-> (i + 1) \div 2,
             part |-> 2 - (i % 2)]]
    \o [i \in 1..Len(cs[ci].chunks) |->
            [case |-> ci, loop |-> "chunks", i |-> i, part |-> 0]]

RECURSIVE StepsFrom(_, _)
StepsFrom(cs, ci) ==
    IF ci > Len(cs) THEN <<>> ELSE CaseSteps(cs, ci) \o StepsFrom(cs, ci + 1)

Schedule == StepsFrom(cases, 1)

AtLoop(loop) ==
    /\ pc = "fold"
    /\ pos <= Len(Schedule)
    /\ Schedule[pos].loop = loop

CurCase == cases[Schedule[pos].case]

\* ------------------------------------------------------- Entity Resolver
\* lines 177-189: one iteration of `for e in c["entities"]`
TaggedStep(st, e, c) ==
    LET key == build_entity_key(e.entity, e.type) IN
    IF ~KeyIn(key, st.map)
    THEN [map |-> DictSet(st.map, key, NewEntity(st.counter + 1, e.entity, e.type, c)),
          counter |-> st.counter + 1]
    ELSE st

\* lines 195-206: one iteration of `for name in (r["from"], r["to"])`
ParticipantStep(st, name, c) ==
    IF ~name_exists(name, st.map)
    THEN [map |-> DictSet(st.map, build_entity_key(name, "ENTITY"),
                          NewEntity(st.counter + 1, name, "ENTITY", c)),
          counter |-> st.counter + 1]
    ELSE st

RelationshipDoc(r, c) ==
    [from_entity |-> r.from, to_entity |-> r.to,
     relationship_type |-> r.relationship, source_element_id |-> ElemId0(c),
     source_text_snippet |-> Snippet(c), filename |-> c.filename,
     page_number |-> CasePage(c)]

\* what a resolution hands back: the record now stored under the key, or the
\* first record carrying the participant's name
TaggedResolution(m, e) ==
    [kind |-> "tagged", name |-> e.entity, type |-> e.type,
     entity_id |-> DictGet(m, build_entity_key(e.entity, e.type)).entity_id]

ParticipantResolution(m, name) ==
    [kind |-> "participant", name |-> name, type |-> "",
     entity_id |-> m[FirstByName(name, m)].value.entity_id]

\* ------------------------------------------------------ Chunk Associator
RECURSIVE TaggedNames(_, _)
\* line 218: [e["entity"] for e in c["entities"] if e["entity"] in ch["text"]]
TaggedNames(ents, text) ==
    IF ents = <<>> THEN <<>>
    ELSE (IF Contains(text, Head(ents).entity) THEN <<Head(ents).entity>> ELSE <<>>)
         \o TaggedNames(Tail(ents), text)

\* line 221 with the test of r["to"] left out
RelMatches_FromOnly(r, text) == Contains(text, r.from)

\* line 221
RelMatches(r, text) == Contains(text, r.from) \/ Contains(text, r.to)

\* lines 219-223
RelEntities(rels, text) ==
    UNION {{rels[i].from, rels[i].to} : i \in {j \in 1..Len(rels) : RelMatches(rels[j], text)}}

Range(s) == {s[i] : i \in 1..Len(s)}

\* list(a_set): a set of str is iterated in hash order, which differs from
\* process to process; every order is possible
SetOrders(S) == {s \in [1..Cardinality(S) -> S] : Range(s) = S}

RECURSIVE FromKeys(_, _)
\* list(dict.fromkeys(xs)): duplicates dropped, first occurrence kept
FromKeys(xs, seen) ==
    IF xs = <<>> THEN <<>>
    ELSE IF Head(xs) \in seen THEN FromKeys(Tail(xs), seen)
    ELSE <<Head(xs)>> \o FromKeys(Tail(xs), seen \cup {Head(xs)})

\* line 224, for one iteration order of the set
AllNames(c, ch, order) == FromKeys(TaggedNames(c.entities, ch.text) \o order, {})

\* ------------------------------------------------------ Embedding Client
\* lines 71-72
ZeroVector == [kind |-> "zeros", dimension |-> DIMENSION]

\* lines 73-76: the request sent to the provider
EmbeddingRequest(text) == [model |-> EMBEDDING_MODEL, input |-> Prefix(text, EmbedInputLimit)]

\* line 77: the provider answers a request with the vector of its input
ProviderVector(req) == [kind |-> "provider", of |-> req.input]

\* ------------------------------------------------------ Document Builder
ChunkDoc(c, ch, names, emb) ==
    [element_id |-> ch.element_id, text |-> ch.text, filename |-> c.filename,
     page_number |-> PageOf(ch), entity_names |-> names, text_embedding |-> emb]

\* lines 236-240 without the break: every entity of that name is back-filled
BackFillName_NoBreak(m, name, element_id) ==
    [i \in 1..Len(m) |->
        IF m[i].value.entity_name = name
           /\ element_id \notin Range(m[i].value.source_element_ids)
        THEN [m[i] EXCEPT !.value.source_element_ids = Append(@, element_id)]
        ELSE m[i]]

\* lines 236-240: the inner loop for one name
BackFillName(m, name, element_id) ==
    LET i == FirstByName(name, m) IN
    IF i = 0 THEN m
    ELSE IF element_id \in Range(m[i].value.source_element_ids) THEN m
    ELSE [m EXCEPT ![i].value.source_element_ids = Append(@, element_id)]

RECURSIVE BackFill(_, _, _)
\* lines 235-240
BackFill(m, names, element_id) ==
    IF names = <<>> THEN m
    ELSE BackFill(BackFillName(m, Head(names), element_id), Tail(names), element_id)

\* -------------------------------------------------------- Bulk Submitter
ChunkAction(doc) ==
    [_index |-> LAW_INDICES.chunks, _id |-> doc.element_id, _source |-> doc]

EntityAction(ent) ==
    [_index |-> LAW_INDICES.entities, _id |-> ent.entity_id, _source |-> ent]

RelationshipAction(i, r) ==
    [_index |-> LAW_INDICES.relationships, _id |-> RelId(i), _source |-> r]

\* lines 245-286
BulkActions(chunks, m, rels) ==
    [i \in 1..Len(chunks) |-> ChunkAction(chunks[i])]
    \o [i \in 1..Len(m) |-> EntityAction(m[i].value)]
    \o [i \in 1..Len(rels) |-> RelationshipAction(i, rels[i])]

\* line 295
SummaryLine(chunks, m, rels) ==
    "Indexed " \o Decimal(Len(chunks)) \o " chunks, " \o Decimal(Len(m))
    \o " entities, " \o Decimal(Len(rels)) \o " relationships."

\* lines 291-293 with the loop stopping one item short
ReportStderr_DropsLast(errs) == [i \in 1..(Len(errs) - 1) |-> <<"Bulk error:", errs[i]>>]

\* lines 291-293
ReportStderr(errs) == [i \in 1..Len(errs) |-> <<"Bulk error:", errs[i]>>]

\* line 295 without the else: the summary is printed whatever happened
ReportStdout_Always(errs, chunks, m, rels) == <<SummaryLine(chunks, m, rels)>>

\* lines 291 and 294-295
ReportStdout(errs, chunks, m, rels) ==
    IF errs # <<>> THEN <<>> ELSE <<SummaryLine(chunks, m, rels)>>

\* the failed items of a bulk call, in the order they were submitted
RECURSIVE FailedItems(_, _, _)
FailedItems(actions, failed, i) ==
    IF i > Len(actions) THEN <<>>
    ELSE (IF i \in failed THEN <<[index |-> [_id |-> actions[i]._id, status |-> 400]]>>
          ELSE <<>>)
         \o FailedItems(actions, failed, i + 1)

\* ---------------------------------------------------------------- control
PcAfter(p) == IF p > Len(Schedule) THEN "bulk" ELSE "fold"

\* line 226 with the provider's error caught and the fold abandoned
PcAfterEmbeddingError_Swallowed == "bulk"

\* line 226: get_embedding raises inside main, nothing catches it
PcAfterEmbeddingError == "aborted"

\* main returns normally after the report, errors or not
ExitStatusAfterBulk == 0

\* ------------------------------------------------------------------- Init
Fresh ==
    /\ pc = IF StepsFrom(cases, 1) = <<>> THEN "bulk" ELSE "fold"
    /\ pos = 1
    /\ entity_map = <<>>
    /\ entity_counter = 0
    /\ relationship_docs = <<>>
    /\ chunk_docs = <<>>
    /\ embed_requests = <<>>
    /\ bulk_calls = <<>>
    /\ success = 0
    /\ errors = <<>>
    /\ stdout = <<>>
    /\ stderr = <<>>
    /\ exit_status = "running"
    /\ resolved = {}

Init ==
    /\ cases \in Corpora
    /\ openai_client \in BOOLEAN
    /\ previous_runs = <<>>
    /\ Fresh

\* ---------------------------------------------------------------- actions
FoldUnchanged ==
    UNCHANGED <<cases, openai_client, bulk_calls, success, errors, stdout,
                stderr, exit_status, previous_runs>>

\* lines 177-189
ResolveTagged ==
    /\ AtLoop("entities")
    /\ LET c == CurCase
           e == c.entities[Schedule[pos].i]
           st == TaggedStep([map |-> entity_map, counter |-> entity_counter], e, c)
       IN /\ entity_map' = st.map
          /\ entity_counter' = st.counter
          /\ resolved' = resolved \cup {TaggedResolution(st.map, e)}
    /\ pos' = pos + 1
    /\ pc' = PcAfter(pos + 1)
    /\ UNCHANGED <<relationship_docs, chunk_docs, embed_requests>>
    /\ FoldUnchanged

\* lines 194-215: one participant of the relationship is resolved; after the
\* second one the relationship document is appended
ResolveParticipant ==
    /\ AtLoop("relationships")
    /\ LET c == CurCase
           r == c.relationships[Schedule[pos].i]
           name == IF Schedule[pos].part = 1 THEN r.from ELSE r.to
           st == ParticipantStep([map |-> entity_map, counter |-> entity_counter],
                                 name, c)
       IN /\ entity_map' = st.map
          /\ entity_counter' = st.counter
          /\ resolved' = resolved \cup {ParticipantResolution(st.map, name)}
          /\ relationship_docs' =
                IF Schedule[pos].part = 2
                THEN Append(relationship_docs, RelationshipDoc(r, c))
                ELSE relationship_docs
    /\ pos' = pos + 1
    /\ pc' = PcAfter(pos + 1)
    /\ UNCHANGED <<chunk_docs, embed_requests>>
    /\ FoldUnchanged

\* lines 217-240, the embedding answered
ProcessChunk ==
    /\ AtLoop("chunks")
    /\ LET c == CurCase
           ch == c.chunks[Schedule[pos].i]
           req == EmbeddingRequest(ch.text)
           emb == IF openai_client THEN ProviderVector(req) ELSE ZeroVector
       IN \E order \in SetOrders(RelEntities(c.relationships, ch.text)) :
            LET all_names == AllNames(c, ch, order) IN
            /\ embed_requests' = IF openai_client THEN Append(embed_requests, req)
                                 ELSE embed_requests
            /\ chunk_docs' = Append(chunk_docs, ChunkDoc(c, ch, all_names, emb))
            /\ entity_map' = BackFill(entity_map, all_names, ch.element_id)
    /\ pos' = pos + 1
    /\ pc' = PcAfter(pos + 1)
    /\ UNCHANGED <<entity_counter, relationship_docs, resolved>>
    /\ FoldUnchanged

\* lines 226 and 73-76: the provider's error propagates out of main
EmbeddingFails ==
    /\ AtLoop("chunks")
    /\ openai_client
    /\ embed_requests' = Append(embed_requests,
                                EmbeddingRequest(CurCase.chunks[Schedule[pos].i].text))
    /\ pc' = PcAfterEmbeddingError
    /\ exit_status' = 1
    /\ UNCHANGED <<cases, openai_client, pos, entity_map, entity_counter,
                   relationship_docs, chunk_docs, bulk_calls, success, errors,
                   stdout, stderr, resolved, previous_runs>>

\* lines 245-295: helpers.bulk(..., raise_on_error=False) returns its
\* (success, errors) pair, the outcome is printed and main returns
BulkReturns ==
    /\ pc = "bulk"
    /\ LET actions == BulkActions(chunk_docs, entity_map, relationship_docs) IN
       \E failed \in {f \in SUBSET (1..Len(actions)) : Cardinality(f) <= MaxFailures} :
         LET errs == FailedItems(actions, failed, 1) IN
         /\ bulk_calls' = Append(bulk_calls, actions)
         /\ errors' = errs
         /\ success' = Len(actions) - Cardinality(failed)
         /\ stderr' = stderr \o ReportStderr(errs)
         /\ stdout' = stdout \o ReportStdout(errs, chunk_docs, entity_map,
                                             relationship_docs)
    /\ pc' = "done"
    /\ exit_status' = ExitStatusAfterBulk
    /\ UNCHANGED <<cases, openai_client, pos, entity_map, entity_counter,
                   relationship_docs, chunk_docs, embed_requests, resolved,
                   previous_runs>>

\* lines 288-290: the transport fails and helpers.bulk raises
BulkRaises ==
    /\ pc = "bulk"
    /\ bulk_calls' = Append(bulk_calls,
                            BulkActions(chunk_docs, entity_map, relationship_docs))
    /\ pc' = "aborted"
    /\ exit_status' = 1
    /\ UNCHANGED <<cases, openai_client, pos, entity_map, entity_counter,
                   relationship_docs, chunk_docs, embed_requests, success, errors,
                   stdout, stderr, resolved, previous_runs>>

Next ==
    \/ ResolveTagged
    \/ ResolveParticipant
    \/ ProcessChunk
    \/ EmbeddingFails
    \/ BulkReturns
    \/ BulkRaises

Spec == Init /\ [][Next]_vars

\* ----------------------------------------------------------- a second run
RerunMaxItems == 2

\* line 299: the script is started again on the same corpus; what the first
\* run built is kept aside, everything else starts as lines 165-168 set it
Rerun ==
    /\ pc = "done"
    /\ previous_runs = <<>>
    /\ previous_runs' = <<chunk_docs>>
    /\ UNCHANGED <<cases, openai_client>>
    /\ pc' = IF StepsFrom(cases, 1) = <<>> THEN "bulk" ELSE "fold"
    /\ pos' = 1
    /\ entity_map' = <<>>
    /\ entity_counter' = 0
    /\ relationship_docs' = <<>>
    /\ chunk_docs' = <<>>
    /\ embed_requests' = <<>>
    /\ bulk_calls' = <<>>
    /\ success' = 0
    /\ errors' = <<>>
    /\ stdout' = <<>>
    /\ stderr' = <<>>
    /\ exit_status' = "running"
    /\ resolved' = {}

InitRerun ==
    /\ cases \in CorporaUpTo(RerunMaxItems)
    /\ openai_client \in BOOLEAN
    /\ previous_runs = <<>>
    /\ Fresh

NextRerun == Next \/ Rerun

SpecRerun == InitRerun /\ [][NextRerun]_vars

\* ------------------------------------------------- the corpus, flattened
RECURSIVE CorpusChunksFrom(_, _)
CorpusChunksFrom(cs, ci) ==
    IF ci > Len(cs) THEN <<>>
    ELSE [i \in 1..Len(cs[ci].chunks) |-> [case |-> cs[ci], chunk |-> cs[ci].chunks[i]]]
         \o CorpusChunksFrom(cs, ci + 1)

CorpusChunks == CorpusChunksFrom(cases, 1)

RECURSIVE CorpusRelationshipsFrom(_, _)
CorpusRelationshipsFrom(cs, ci) ==
    IF ci > Len(cs) THEN <<>>
    ELSE cs[ci].relationships \o CorpusRelationshipsFrom(cs, ci + 1)

CorpusRelationships == CorpusRelationshipsFrom(cases, 1)

FoldDone == pos > Len(Schedule)

PairIn(name, type, m) ==
    \E i \in 1..Len(m) : m[i].value.entity_name = name /\ m[i].value.entity_type = type

EntityIds(m) == {m[i].value.entity_id : i \in 1..Len(m)}

Count(s, x) == Cardinality({i \in 1..Len(s) : s[i] = x})

TypeOK ==
    /\ pc \in {"fold", "bulk", "done", "aborted"}
    /\ entity_counter \in Nat
    /\ Len(chunk_docs) <= Len(CorpusChunks)
    /\ Len(embed_requests) <= Len(CorpusChunks)

\* ------------------------------------------------------------------- C1
\* C1: resolving a relationship participant whose name is the entity_name of
\* an entity already in the map (whatever its type) creates nothing and leaves
\* the counter alone; a tagged mention whose (name, type) pair no record of
\* the map carries always creates a new record with a fresh entity_id.
C1_ParticipantTaggedAsymmetry ==
    [][ /\ AtLoop("relationships") =>
             LET r == CurCase.relationships[Schedule[pos].i]
                 name == IF Schedule[pos].part = 1 THEN r.from ELSE r.to
             IN name_exists(name, entity_map) =>
                    /\ entity_map' = entity_map
                    /\ entity_counter' = entity_counter
        /\ AtLoop("entities") =>
             LET e == CurCase.entities[Schedule[pos].i] IN
             ~PairIn(e.entity, e.type, entity_map) =>
                /\ Len(entity_map') = Len(entity_map) + 1
                /\ entity_counter' = entity_counter + 1
                /\ entity_map'[Len(entity_map')].value.entity_name = e.entity
                /\ entity_map'[Len(entity_map')].value.entity_type = e.type
                /\ entity_map'[Len(entity_map')].value.entity_id \notin EntityIds(entity_map)
                /\ \A i \in 1..Len(entity_map) : entity_map'[i] = entity_map[i]
      ]_vars

\* ------------------------------------------------------------------- C2
\* C2: within one run, every resolution of the same (name, type) pair, and
\* every resolution of the same participant name, hands back the same
\* entity_id.
C2_EntityIdentityStable ==
    \A r1, r2 \in resolved :
        (r1.kind = r2.kind /\ r1.name = r2.name /\ r1.type = r2.type)
            => r1.entity_id = r2.entity_id

\* ------------------------------------------------------------------- C3
\* C3: a relationship of the chunk's case one of whose participants occurs in
\* the chunk text puts both participants in the chunk document's
\* entity_names, and entity_names holds nothing but tagged names of the case
\* that occur in the text and participants of such relationships.
C3_RelationshipUnitAssociation ==
    \A k \in 1..Len(chunk_docs) :
        LET c == CorpusChunks[k].case
            text == CorpusChunks[k].chunk.text
            names == Range(chunk_docs[k].entity_names)
            matching == {i \in 1..Len(c.relationships) :
                            \/ Contains(text, c.relationships[i].from)
                            \/ Contains(text, c.relationships[i].to)}
        IN /\ \A i \in matching :
                {c.relationships[i].from, c.relationships[i].to} \subseteq names
           /\ \A n \in names :
                \/ \E i \in 1..Len(c.entities) :
                        c.entities[i].entity = n /\ Contains(text, n)
                \/ \E i \in matching :
                        n \in {c.relationships[i].from, c.relationships[i].to}

\* a chunk naming a participant that its text does not contain
C3_Witness ==
    \E k \in 1..Len(chunk_docs) :
        \E i \in 1..Len(CorpusChunks[k].case.relationships) :
            LET r == CorpusChunks[k].case.relationships[i] IN
            /\ Contains(chunk_docs[k].text, r.to)
            /\ ~Contains(chunk_docs[k].text, r.from)
            /\ r.from \in Range(chunk_docs[k].entity_names)

\* ------------------------------------------------------------------- C4
\* C4: helpers.bulk is called at most once; when it returns failed items the
\* run ends normally with exit status 0, with one "Bulk error:" line per
\* failed item, and the one batch it sent is all that was ever submitted.
C4_PartialFailureTolerated ==
    /\ Len(bulk_calls) <= 1
    /\ pc = "done" => Len(bulk_calls) = 1
    /\ errors # <<>> =>
          /\ pc = "done"
          /\ exit_status = 0
          /\ Len(bulk_calls) = 1
          /\ success = Len(bulk_calls[1]) - Len(errors)
          /\ Len(stderr) = Len(errors)
          /\ \A i \in 1..Len(errors) : stderr[i] = <<"Bulk error:", errors[i]>>

C4_Witness ==
    /\ pc = "done"
    /\ errors # <<>>
    /\ success > 0
    /\ exit_status = 0
    /\ Len(stderr) = Len(errors)

\* ------------------------------------------------------------------- C6
\* C6: the batch is sent only once every chunk is embedded; the provider is
\* asked for each chunk at most once, in corpus order; and once a request has
\* failed the run is aborted with nothing submitted and no further request.
C6_FailFastNoPartialCommit ==
    /\ bulk_calls # <<>> =>
          /\ Len(chunk_docs) = Len(CorpusChunks)
          /\ openai_client => Len(embed_requests) = Len(CorpusChunks)
    /\ ~openai_client => embed_requests = <<>>
    /\ \A i \in 1..Len(embed_requests) :
          /\ i <= Len(CorpusChunks)
          /\ embed_requests[i].input = Prefix(CorpusChunks[i].chunk.text, EmbedInputLimit)
    /\ Len(embed_requests) > Len(chunk_docs) =>
          /\ pc = "aborted"
          /\ exit_status = 1
          /\ bulk_calls = <<>>
          /\ Len(embed_requests) = Len(chunk_docs) + 1

\* the second chunk's request failed after the first chunk was built
C6_Witness ==
    /\ pc = "aborted"
    /\ bulk_calls = <<>>
    /\ Len(chunk_docs) = 1
    /\ Len(embed_requests) = 2
    /\ Len(CorpusChunks) = 2
    /\ entity_map # <<>>

\* ------------------------------------------------------------------- C7
RECURSIVE FirstSeenParticipants(_, _)
FirstSeenParticipants(rels, text) ==
    IF rels = <<>> THEN <<>>
    ELSE (IF Contains(text, Head(rels).from) \/ Contains(text, Head(rels).to)
          THEN <<Head(rels).from, Head(rels).to>> ELSE <<>>)
         \o FirstSeenParticipants(Tail(rels), text)

\* C7: entity_names is duplicate-free and in first-seen order: the tagged
\* names occurring in the text in tagging order, then the participants of the
\* matching relationships not yet listed, from before to, in case order.
C7_AssociationOrder ==
    \A k \in 1..Len(chunk_docs) :
        LET c == CorpusChunks[k].case
            text == CorpusChunks[k].chunk.text
        IN chunk_docs[k].entity_names
             = FromKeys(TaggedNames(c.entities, text)
                        \o FirstSeenParticipants(c.relationships, text), {})

\* ------------------------------------------------------------------- C8
\* every source_element_id of an entity is the element_id of a chunk whose
\* entity_names holds the entity's name, and is recorded once
SourcesFromNamingChunks ==
    \A i \in 1..Len(entity_map) :
        \A x \in Range(entity_map[i].value.source_element_ids) :
            /\ Count(entity_map[i].value.source_element_ids, x) = 1
            /\ \E k \in 1..Len(chunk_docs) :
                  /\ chunk_docs[k].element_id = x
                  /\ entity_map[i].value.entity_name \in Range(chunk_docs[k].entity_names)

\* C8 as stated: after the fold, every entity whose entity_name is in a
\* chunk's entity_names has that chunk's element_id exactly once, each of
\* several entities sharing the name included.
C8_BackFillEveryEntity ==
    FoldDone =>
        /\ \A k \in 1..Len(chunk_docs) :
              \A i \in 1..Len(entity_map) :
                  entity_map[i].value.entity_name \in Range(chunk_docs[k].entity_names)
                      => Count(entity_map[i].value.source_element_ids,
                               chunk_docs[k].element_id) = 1
        /\ SourcesFromNamingChunks

\* C8 amended: processing a chunk records its element_id, once, on the first
\* entity of the map carrying each name of its entity_names, and changes no
\* other entity; source_element_ids only ever hold element_ids of chunks
\* whose entity_names holds the entity's name.
C8_BackFillFirstMatch ==
    [][ /\ (AtLoop("chunks") /\ Len(chunk_docs') = Len(chunk_docs) + 1) =>
             LET doc == chunk_docs'[Len(chunk_docs')]
                 firsts == {FirstByName(n, entity_map) : n \in Range(doc.entity_names)}
             IN /\ Len(entity_map') = Len(entity_map)
                /\ \A i \in 1..Len(entity_map) :
                      IF i \in firsts
                      THEN /\ Count(entity_map'[i].value.source_element_ids,
                                    doc.element_id) = 1
                           /\ [entity_map'[i].value EXCEPT !.source_element_ids = <<>>]
                                = [entity_map[i].value EXCEPT !.source_element_ids = <<>>]
                           /\ \A x \in Range(entity_map[i].value.source_element_ids) :
                                 x \in Range(entity_map'[i].value.source_element_ids)
                      ELSE entity_map'[i] = entity_map[i]
        /\ SourcesFromNamingChunks'
      ]_vars

\* two entities share a name that a chunk names; only the first has its id
C8_Witness ==
    \E k \in 1..Len(chunk_docs) :
        \E i, j \in 1..Len(entity_map) :
            /\ i < j
            /\ entity_map[i].value.entity_name = entity_map[j].value.entity_name
            /\ entity_map[i].value.entity_name \in Range(chunk_docs[k].entity_names)
            /\ chunk_docs[k].element_id \in Range(entity_map[i].value.source_element_ids)
            /\ chunk_docs[k].element_id \notin Range(entity_map[j].value.source_element_ids)
            /\ FoldDone

\* ------------------------------------------------------------------- C9
\* C9: after the fold the map holds a record with the name and type of every
\* tagged mention and a record with the name of every participant, and
\* relationship_docs holds one document per input relationship, in input
\* order, submitted under rel_001, rel_002, ...
C9_NothingDropped ==
    FoldDone =>
        /\ \A ci \in 1..Len(cases) :
              /\ \A i \in 1..Len(cases[ci].entities) :
                    PairIn(cases[ci].entities[i].entity, cases[ci].entities[i].type,
                           entity_map)
              /\ \A i \in 1..Len(cases[ci].relationships) :
                    /\ name_exists(cases[ci].relationships[i].from, entity_map)
                    /\ name_exists(cases[ci].relationships[i].to, entity_map)
        /\ Len(relationship_docs) = Len(CorpusRelationships)
        /\ \A i \in 1..Len(relationship_docs) :
              /\ relationship_docs[i].from_entity = CorpusRelationships[i].from
              /\ relationship_docs[i].to_entity = CorpusRelationships[i].to
              /\ relationship_docs[i].relationship_type = CorpusRelationships[i].relationship
        /\ \A b \in 1..Len(bulk_calls) :
              \A i \in 1..Len(relationship_docs) :
                  LET a == bulk_calls[b][Len(chunk_docs) + Len(entity_map) + i] IN
                  a._id = RelId(i) /\ a._source = relationship_docs[i]

\* ------------------------------------------------------------------ C10
ExpectedSummary ==
    "Indexed " \o Decimal(Len(CorpusChunks)) \o " chunks, "
    \o Decimal(Len(entity_map)) \o " entities, "
    \o Decimal(Len(CorpusRelationships)) \o " relationships."

\* C10 as stated: a run that gets through the bulk submission prints the
\* summary line, failed items or not, besides one line per failed item.
C10_SummaryAlways ==
    pc = "done" =>
        /\ ExpectedSummary \in Range(stdout)
        /\ Len(stderr) = Len(errors)

\* C10 amended: a run that gets through the bulk submission prints the
\* summary line exactly when no item failed; with failed items it prints one
\* line per failed item and no summary.
C10_SummaryOnlyWithoutFailures ==
    pc = "done" =>
        /\ errors = <<>> => stdout = <<ExpectedSummary>> /\ stderr = <<>>
        /\ errors # <<>> => stdout = <<>> /\ Len(stderr) = Len(errors)

C10_Witness ==
    /\ pc = "done"
    /\ errors # <<>>
    /\ stdout = <<>>
    /\ stderr # <<>>
    /\ chunk_docs # <<>>

\* ------------------------------------------------------------------- C5
\* C5: a second run over the same corpus builds the chunk documents the
\* first run built, field for field and in the same order, and element_ids
\* that are unique in the corpus are unique among the chunk documents.
C5_IdempotentRerun ==
    /\ (pc = "done" /\ previous_runs # <<>>) => chunk_docs = previous_runs[1]
    /\ (\A i, j \in 1..Len(CorpusChunks) :
            CorpusChunks[i].chunk.element_id = CorpusChunks[j].chunk.element_id => i = j)
        => \A i, j \in 1..Len(chunk_docs) :
              chunk_docs[i].element_id = chunk_docs[j].element_id => i = j

====
